---- MODULE Spec2Model ----
(***************************************************************************)
(* Model of the CELLxGENE Census MCP server (src/src/cellxgene_mcp/        *)
(* server.py): the CensusManager (scoped archive handle, bounded metadata  *)
(* and data-slice queries) and the CellxGeneMCP tools built on it.         *)
(*                                                                         *)
(* Every call is a small sequential process.  Its steps are the points at  *)
(* which it talks to the archive: opening the handle, each retrieval,      *)
(* closing the handle.  The work between two such points (truncation,      *)
(* conversion to records, building the result) belongs to the step of the  *)
(* retrieval it follows.                                                   *)
(*                                                                         *)
(* Two specifications share the actions:                                   *)
(*   Spec      one caller issuing calls one after the other, with the      *)
(*             full input ranges;                                          *)
(*   SpecConc  NumCalls callers whose calls interleave at every step, with *)
(*             narrow input ranges (the data is irrelevant to what is      *)
(*             checked there).                                             *)
(***************************************************************************)
EXTENDS Integers, Sequences, FiniteSets, TLC

(* ------------------------------ bounds --------------------------------- *)

\* largest table (rows) the archive returns to a metadata query
MaxRows == 12
\* a caller passes row limits and axis caps from -MaxNegLimit upwards
MaxNegLimit == 2
\* largest number of cells (and of genes) in a matrix returned by the archive
MaxSliceDim == 6
\* largest number of rows of a cell_type table
MaxCellTypeRows == 3
\* largest per-organism cell / gene count in the introspection query
MaxCount == 1
\* largest number of entries of the version directory
MaxVersions == 2
\* longest column_names string a caller passes
MaxColLen == 4
\* number of calls the single caller of Spec issues, and number of
\* concurrent callers of SpecConc
MaxCalls == 2
NumCalls == 2

(* ------------------------- program constants --------------------------- *)

\* adata.obs.head(5) / adata.var.head(5)
SampleSize == 5
\* cell_type_counts.head(10)
TopN == 10

(* --------------------------- small helpers ----------------------------- *)

Min(a, b) == IF a <= b THEN a ELSE b
Max(a, b) == IF a >= b THEN a ELSE b

\* Python / pandas prefix slice  x[:k]  (DataFrame.head(k), adata[:k, :]):
\* the first k elements for k >= 0, all but the last -k for k < 0.
head(s, k) ==
    IF k >= 0 THEN SubSeq(s, 1, Min(k, Len(s)))
              ELSE SubSeq(s, 1, Max(Len(s) + k, 0))

\* the table  <<1, 2, ..., n>>  (row identities in the archive's order)
Table(n) == [i \in 1..n |-> i]

Calls == 1..NumCalls

Ops == {"get_obs_metadata", "get_var_metadata", "get_data_slice",
        "get_all_cell_types", "get_census_info"}

\* the value of a variable that holds nothing (Python None / no result yet)
None == [kind |-> "none"]

(* ------------------------------- state --------------------------------- *)

VARIABLES
    call,            \* per caller: the number of its current call
    op,              \* per call: the tool being run
    pc,              \* per call: where the call stands
    args,            \* per call: the arguments of the tool
    census,          \* per call: the local `census` of get_census (0 = unbound)
    df,              \* per call: the table the archive returned (obs_df / var_df)
    adata,           \* per call: the matrix object the archive returned
    info,            \* per call: the locals of get_census_info
    result,          \* per call: the value built for the caller
    error,           \* per call: the exception in flight / raised to the caller
    opens,           \* per call: open_soma calls made
    retrievals,      \* per call: retrieval calls made on the archive
    asked,           \* per call: the column selector passed to the archive
    handles,         \* every handle open_soma ever returned, in order
    manager_census,  \* CensusManager._census
    started          \* number of calls issued so far

vars == <<call, op, pc, args, census, df, adata, info, result, error, opens,
          retrievals, asked, handles, manager_census, started>>

\* what no step inside a call changes
shared == <<call, started>>

(* ------------------------ input ranges per profile --------------------- *)

\* row limits of the metadata queries
Limits(p) == IF p = "full" THEN (0 - MaxNegLimit)..(MaxRows + 1) ELSE {1}
\* sizes of the tables the archive returns to a metadata query
TableSizes(p) == IF p = "full" THEN 0..MaxRows ELSE {2}

\* axis caps of the data-slice query
Caps(p) == IF p = "full" THEN (0 - MaxNegLimit)..(MaxSliceDim + 1) ELSE {1}
\* sizes of either axis of the matrix the archive returns
SliceDims(p) == IF p = "full" THEN 0..MaxSliceDim ELSE {2}

RECURSIVE SeqsUpTo(_, _)
\* the sequences over S of length at most n
SeqsUpTo(S, n) ==
    IF n = 0 THEN {<<>>}
    ELSE LET shorter == SeqsUpTo(S, n - 1)
         IN  shorter \cup {Append(q, x) : q \in shorter, x \in S}

\* a Python str, as the sequence of its characters, and a Python list
Str(chars) == [kind |-> "str", chars |-> chars]
List(items) == [kind |-> "list", items |-> items]

\* Python truth of an optional str or list: None and the empty one are false
truthy(v) ==
    /\ v # None
    /\ IF v.kind = "str" THEN v.chars # <<>> ELSE v.items # <<>>

\* the characters of the column_names strings
ColumnChars == {"a", "b", ",", " "}

\* the column_names strings a caller passes (None when it passes none)
ColumnStrings(p) ==
    IF p = "cols"
    THEN {None} \cup {Str(q) : q \in SeqsUpTo(ColumnChars, MaxColLen)}
    ELSE {None}

\* the (obs_column_names, var_column_names) pairs a caller passes
ColumnStringPairs(p) ==
    LET few == {None, Str(<<"b">>)}
    IN  IF p = "cols"
        THEN (ColumnStrings(p) \X few) \cup (few \X ColumnStrings(p))
        ELSE {<<None, None>>}

\* cell_type labels, as the sequences of their character codes
CellTypeLabels == {<<1>>, <<1, 1>>, <<1, 2>>, <<2>>, <<2, 1>>}

\* the cell_type columns the archive returns
CellTypeTables(p) ==
    IF p = "full" THEN SeqsUpTo(CellTypeLabels, MaxCellTypeRows)
                  ELSE {<< <<2>>, <<1>>, <<2>> >>}

\* the organisms of the archive
Organisms == {"Homo sapiens", "Mus musculus"}

\* census["census_data"].keys(): the organisms present, in any order
OrganismLists(p) ==
    IF p = "full"
    THEN {q \in SeqsUpTo(Organisms, Cardinality(Organisms)) :
            \A i, j \in 1..Len(q) : i # j => q[i] # q[j]}
    ELSE {<<"Homo sapiens">>}

\* per-organism cell and gene counts
Counts(p) == IF p = "full" THEN 0..MaxCount ELSE {1}

\* get_census_version_directory(): release builds 1, 2, ... in order, each
\* flagged long-term-support or not
VersionDirs(p) ==
    IF p = "full"
    THEN UNION {[1..n -> BOOLEAN] : n \in 0..MaxVersions}
    ELSE {<<TRUE>>}

\* the boolean options of get_all_cell_types
Flags(p) == IF p = "full" THEN BOOLEAN ELSE {TRUE}

\* the rows of census["census_info"]["summary"]
SummaryTable == <<[label |-> "census_schema_version", value |-> "2.0.0"],
                  [label |-> "total_cell_count", value |-> "3"]>>

\* The columns the archive holds on each axis (the resource text, lines
\* 276-291).
ArchiveObsColumns == <<"cell_type", "tissue", "disease", "sex">>
ArchiveVarColumns == <<"feature_id", "feature_name", "feature_length">>

(* --------------------------- CensusManager ----------------------------- *)

\* CensusManager.__init__: the version pin is kept, no handle is stored
CensusManagerInit == manager_census = 0

\* cellxgene_census.open_soma succeeded: a fresh handle, open, opened by
\* call number k; it records the calls that read through it and close it
NewHandle(k) ==
    [opener |-> k, open |-> TRUE, closes |-> 0, readers |-> {}, closers |-> {}]

\* census.close(), by call number k
CloseHandle(h, k) ==
    [h EXCEPT !.open = FALSE, !.closes = @ + 1, !.closers = @ \cup {k}]

\* a retrieval by call number k through handle id
ReadThrough(hs, id, k) ==
    [hs EXCEPT ![id].readers = @ \cup {k}]

\* lines 55-57 reached after open_soma raised: `census` was never assigned,
\* so `if census:` raises UnboundLocalError, which replaces the exception in
\* flight; census.close() is not reached
cleanup_after_failed_open(in_flight) == "UnboundLocalError"

\* get_census opening again after a failed open
get_census_enter_retrying(c, nextpc) ==
    /\ opens' = [opens EXCEPT ![c] = @ + 1]
    /\ manager_census' = manager_census
    /\ \/ /\ handles' = Append(handles, NewHandle(call[c]))
          /\ census' = [census EXCEPT ![c] = Len(handles) + 1]
          /\ pc' = [pc EXCEPT ![c] = nextpc]
          /\ error' = error
       \/ /\ handles' = handles
          /\ census' = census
          /\ pc' = pc
          /\ error' = error

\* get_census keeping the handle on the manager and handing it to later calls
get_census_enter_cached(c, nextpc) ==
    /\ opens' = [opens EXCEPT ![c] = @ + 1]
    /\ pc' = [pc EXCEPT ![c] = nextpc]
    /\ error' = error
    /\ IF manager_census # 0
       THEN /\ census' = [census EXCEPT ![c] = manager_census]
            /\ UNCHANGED <<handles, manager_census>>
       ELSE /\ handles' = Append(handles, NewHandle(call[c]))
            /\ census' = [census EXCEPT ![c] = Len(handles) + 1]
            /\ manager_census' = Len(handles) + 1

\* get_census, up to the yield: open_soma is called once.  When it raises,
\* control goes to the finally block with `census` never assigned; reading
\* it there raises UnboundLocalError, which is what leaves get_census.
get_census_enter(c, nextpc) ==
    /\ opens' = [opens EXCEPT ![c] = @ + 1]
    /\ manager_census' = manager_census
    /\ \/ /\ handles' = Append(handles, NewHandle(call[c]))
          /\ census' = [census EXCEPT ![c] = Len(handles) + 1]
          /\ pc' = [pc EXCEPT ![c] = nextpc]
          /\ error' = error
       \/ /\ handles' = handles
          /\ census' = census
          /\ pc' = [pc EXCEPT ![c] = "raised"]
          /\ error' = [error EXCEPT ![c] = cleanup_after_failed_open("OpenError")]

\* get_census without the try/finally: the handle is closed only when the
\* body ended without an exception
get_census_exit_unguarded(c) ==
    /\ pc[c] = "close"
    /\ census[c] # 0
    /\ handles' = IF error[c] = "none"
                  THEN [handles EXCEPT ![census[c]] = CloseHandle(@, call[c])]
                  ELSE handles
    /\ pc' = [pc EXCEPT ![c] = IF error[c] = "none" THEN "returned" ELSE "raised"]
    /\ UNCHANGED <<op, args, census, df, adata, info, result, error, opens,
                   retrievals, manager_census, asked, shared>>

\* get_census, the finally block after the yield: `census` is bound to an
\* open archive handle (a non-empty collection, hence true), so it is closed;
\* the body's exception, if any, goes on to the caller, else the body's
\* return value does.
get_census_exit(c) ==
    /\ pc[c] = "close"
    /\ census[c] # 0
    /\ handles' = [handles EXCEPT ![census[c]] = CloseHandle(@, call[c])]
    /\ pc' = [pc EXCEPT ![c] = IF error[c] = "none" THEN "returned" ELSE "raised"]
    /\ UNCHANGED <<op, args, census, df, adata, info, result, error, opens,
                   retrievals, manager_census, asked, shared>>

\* obs_envelope keeping the last rows (tail) in place of the first
obs_envelope_tail(obs_df, a) ==
    LET cut  == IF Len(obs_df) > a.limit
                THEN SubSeq(obs_df, Len(obs_df) - Len(head(obs_df, a.limit)) + 1,
                            Len(obs_df))
                ELSE obs_df
        rows == cut
    IN  [kind |-> "QueryResult",
         rows |-> rows,
         count |-> Len(rows),
         query_info |-> [organism |-> a.organism,
                         value_filter |-> a.value_filter,
                         column_names |-> a.column_names,
                         limited |-> Len(cut) > a.limit]]

\* obs_envelope without the truncation
obs_envelope_untruncated(obs_df, a) ==
    [kind |-> "QueryResult",
     rows |-> obs_df,
     count |-> Len(obs_df),
     query_info |-> [organism |-> a.organism,
                     value_filter |-> a.value_filter,
                     column_names |-> a.column_names,
                     limited |-> Len(obs_df) > a.limit]]

\* lines 77-94: truncate obs_df to the limit, convert to records, build the
\* QueryResult.  "limited" is computed from obs_df after the truncation.
obs_envelope(obs_df, a) ==
    LET cut  == IF Len(obs_df) > a.limit THEN head(obs_df, a.limit) ELSE obs_df
        rows == cut
    IN  [kind |-> "QueryResult",
         rows |-> rows,
         count |-> Len(rows),
         query_info |-> [organism |-> a.organism,
                         value_filter |-> a.value_filter,
                         column_names |-> a.column_names,
                         limited |-> Len(cut) > a.limit]]

\* lines 120-137: the same for var_df
var_envelope(var_df, a) ==
    LET cut  == IF Len(var_df) > a.limit THEN head(var_df, a.limit) ELSE var_df
        rows == cut
    IN  [kind |-> "QueryResult",
         rows |-> rows,
         count |-> Len(rows),
         query_info |-> [organism |-> a.organism,
                         value_filter |-> a.value_filter,
                         column_names |-> a.column_names,
                         limited |-> Len(cut) > a.limit]]

\* what a failed retrieval leaves behind: nothing is built, the exception
\* travels through get_census's finally block
retrieval_failed(c) ==
    /\ pc' = [pc EXCEPT ![c] = "close"]
    /\ error' = [error EXCEPT ![c] = "QueryError"]
    /\ UNCHANGED <<df, adata, result>>

\* CensusManager.get_obs_metadata, entering `async with self.get_census()`
ObsOpen(c) ==
    /\ op[c] = "get_obs_metadata" /\ pc[c] = "open"
    /\ get_census_enter(c, "get")
    /\ UNCHANGED <<op, args, df, adata, info, result, retrievals, asked, shared>>

\* CensusManager.get_obs_metadata, the body of the `async with`
ObsGet(c, p) ==
    /\ op[c] = "get_obs_metadata" /\ pc[c] = "get"
    /\ retrievals' = [retrievals EXCEPT ![c] = @ + 1]
    /\ asked' = [asked EXCEPT ![c] = args[c].column_names]
    /\ handles' = ReadThrough(handles, census[c], call[c])
    /\ \/ \E n \in TableSizes(p) :
             /\ df' = [df EXCEPT ![c] = Table(n)]
             /\ result' = [result EXCEPT ![c] = obs_envelope(Table(n), args[c])]
             /\ pc' = [pc EXCEPT ![c] = "close"]
             /\ UNCHANGED <<adata, error>>
       \/ retrieval_failed(c)
    /\ UNCHANGED <<op, args, census, info, opens, manager_census,
                   shared>>

\* CensusManager.get_var_metadata, entering `async with self.get_census()`
VarOpen(c) ==
    /\ op[c] = "get_var_metadata" /\ pc[c] = "open"
    /\ get_census_enter(c, "get")
    /\ UNCHANGED <<op, args, df, adata, info, result, retrievals, asked, shared>>

\* CensusManager.get_var_metadata, the body of the `async with`
VarGet(c, p) ==
    /\ op[c] = "get_var_metadata" /\ pc[c] = "get"
    /\ retrievals' = [retrievals EXCEPT ![c] = @ + 1]
    /\ asked' = [asked EXCEPT ![c] = args[c].column_names]
    /\ handles' = ReadThrough(handles, census[c], call[c])
    /\ \/ \E n \in TableSizes(p) :
             /\ df' = [df EXCEPT ![c] = Table(n)]
             /\ result' = [result EXCEPT ![c] = var_envelope(Table(n), args[c])]
             /\ pc' = [pc EXCEPT ![c] = "close"]
             /\ UNCHANGED <<adata, error>>
       \/ retrieval_failed(c)
    /\ UNCHANGED <<op, args, census, info, opens, manager_census,
                   shared>>

\* slice_obs cutting both axes at k
slice_obs_both(ad, k) == [ad EXCEPT !.obs = head(@, k), !.var = head(@, k)]

\* adata[:k, :]  and  adata[:, :k]
slice_obs(ad, k) == [ad EXCEPT !.obs = head(@, k)]
slice_var(ad, k) == [ad EXCEPT !.var = head(@, k)]

n_obs(ad) == Len(ad.obs)
n_vars(ad) == Len(ad.var)

\* slice_summary with the flags taken before the truncation, as the
\* metadata queries mean theirs
slice_summary_early_flags(ad0, a) ==
    LET ad1 == IF n_obs(ad0) > a.max_cells THEN slice_obs(ad0, a.max_cells) ELSE ad0
        ad2 == IF n_vars(ad1) > a.max_genes THEN slice_var(ad1, a.max_genes) ELSE ad1
    IN  [kind |-> "slice",
         n_obs |-> n_obs(ad2),
         n_vars |-> n_vars(ad2),
         obs_columns |-> ad2.obs_columns,
         var_columns |-> ad2.var_columns,
         obs_sample |-> IF n_obs(ad2) > 0 THEN head(ad2.obs, SampleSize) ELSE <<>>,
         var_sample |-> IF n_vars(ad2) > 0 THEN head(ad2.var, SampleSize) ELSE <<>>,
         query_info |-> [organism |-> a.organism,
                         obs_value_filter |-> a.obs_value_filter,
                         var_value_filter |-> a.var_value_filter,
                         cells_limited |-> n_obs(ad0) > a.max_cells,
                         genes_limited |-> n_vars(ad0) > a.max_genes]]

\* slice_summary with the caps tested for truth first (`if max_cells and
\* ...`), so that a cap of 0 caps nothing
slice_summary_falsy_cap(ad0, a) ==
    LET ad1 == IF a.max_cells # 0 /\ n_obs(ad0) > a.max_cells
               THEN slice_obs(ad0, a.max_cells) ELSE ad0
        ad2 == IF a.max_genes # 0 /\ n_vars(ad1) > a.max_genes
               THEN slice_var(ad1, a.max_genes) ELSE ad1
    IN  [kind |-> "slice",
         n_obs |-> n_obs(ad2),
         n_vars |-> n_vars(ad2),
         obs_columns |-> ad2.obs_columns,
         var_columns |-> ad2.var_columns,
         obs_sample |-> IF n_obs(ad2) > 0 THEN head(ad2.obs, SampleSize) ELSE <<>>,
         var_sample |-> IF n_vars(ad2) > 0 THEN head(ad2.var, SampleSize) ELSE <<>>,
         query_info |-> [organism |-> a.organism,
                         obs_value_filter |-> a.obs_value_filter,
                         var_value_filter |-> a.var_value_filter,
                         cells_limited |-> n_obs(ad2) = a.max_cells,
                         genes_limited |-> n_vars(ad2) = a.max_genes]]

\* lines 171-195: cap the two axes, then summarise the matrix
slice_summary(ad0, a) ==
    LET ad1 == IF n_obs(ad0) > a.max_cells THEN slice_obs(ad0, a.max_cells) ELSE ad0
        ad2 == IF n_vars(ad1) > a.max_genes THEN slice_var(ad1, a.max_genes) ELSE ad1
    IN  [kind |-> "slice",
         n_obs |-> n_obs(ad2),
         n_vars |-> n_vars(ad2),
         obs_columns |-> ad2.obs_columns,
         var_columns |-> ad2.var_columns,
         obs_sample |-> IF n_obs(ad2) > 0 THEN head(ad2.obs, SampleSize) ELSE <<>>,
         var_sample |-> IF n_vars(ad2) > 0 THEN head(ad2.var, SampleSize) ELSE <<>>,
         query_info |-> [organism |-> a.organism,
                         obs_value_filter |-> a.obs_value_filter,
                         var_value_filter |-> a.var_value_filter,
                         cells_limited |-> n_obs(ad2) = a.max_cells,
                         genes_limited |-> n_vars(ad2) = a.max_genes]]

\* lines 165-168: the column_names argument of get_anndata
anndata_column_names(a) ==
    IF truthy(a.obs_column_names) \/ truthy(a.var_column_names)
    THEN [kind |-> "dict", obs |-> a.obs_column_names, var |-> a.var_column_names]
    ELSE None

\* CensusManager.get_anndata_slice, entering `async with self.get_census()`
SliceOpen(c) ==
    /\ op[c] = "get_data_slice" /\ pc[c] = "open"
    /\ get_census_enter(c, "get")
    /\ UNCHANGED <<op, args, df, adata, info, result, retrievals, asked, shared>>

\* CensusManager.get_anndata_slice, the body of the `async with`
SliceGet(c, p) ==
    /\ op[c] = "get_data_slice" /\ pc[c] = "get"
    /\ retrievals' = [retrievals EXCEPT ![c] = @ + 1]
    /\ asked' = [asked EXCEPT ![c] = anndata_column_names(args[c])]
    /\ handles' = ReadThrough(handles, census[c], call[c])
    /\ \/ \E n \in SliceDims(p), m \in SliceDims(p) :
             LET ad == [kind |-> "AnnData", obs |-> Table(n), var |-> Table(m),
                        obs_columns |-> ArchiveObsColumns,
                        var_columns |-> ArchiveVarColumns]
             IN  /\ adata' = [adata EXCEPT ![c] = ad]
                 /\ result' = [result EXCEPT ![c] = slice_summary(ad, args[c])]
                 /\ pc' = [pc EXCEPT ![c] = "close"]
                 /\ UNCHANGED <<df, error>>
       \/ retrieval_failed(c)
    /\ UNCHANGED <<op, args, census, info, opens, manager_census,
                   shared>>

(* ---------------------------- CellxGeneMCP ----------------------------- *)

\* a call may be issued by an idle caller, or by one whose last call ended
CanStart(c) ==
    /\ pc[c] \in {"idle", "returned", "raised"}
    /\ started < MaxCalls

\* the frame of a fresh call of tool o with arguments a
Begin(c, o, a, firstpc) ==
    /\ op' = [op EXCEPT ![c] = o]
    /\ args' = [args EXCEPT ![c] = a]
    /\ pc' = [pc EXCEPT ![c] = firstpc]
    /\ census' = [census EXCEPT ![c] = 0]
    /\ df' = [df EXCEPT ![c] = <<>>]
    /\ adata' = [adata EXCEPT ![c] = None]
    /\ info' = [info EXCEPT ![c] = None]
    /\ result' = [result EXCEPT ![c] = None]
    /\ error' = [error EXCEPT ![c] = "none"]
    /\ opens' = [opens EXCEPT ![c] = 0]
    /\ retrievals' = [retrievals EXCEPT ![c] = 0]
    /\ started' = started + 1
    /\ call' = [call EXCEPT ![c] = started + 1]
    /\ asked' = [asked EXCEPT ![c] = None]
    /\ UNCHANGED <<handles, manager_census>>

\* str.isspace on one character
Whitespace == {" "}

RECURSIVE split(_)
\* str.split(','): the pieces between the commas, at least one
split(chars) ==
    IF \A i \in 1..Len(chars) : chars[i] # ","
    THEN <<chars>>
    ELSE LET k == CHOOSE i \in 1..Len(chars) :
                     chars[i] = "," /\ \A j \in 1..(i - 1) : chars[j] # ","
         IN  <<SubSeq(chars, 1, k - 1)>> \o split(SubSeq(chars, k + 1, Len(chars)))

RECURSIVE lstrip(_)
lstrip(chars) ==
    IF chars # <<>> /\ chars[1] \in Whitespace THEN lstrip(Tail(chars)) ELSE chars

RECURSIVE rstrip(_)
rstrip(chars) ==
    IF chars # <<>> /\ chars[Len(chars)] \in Whitespace
    THEN rstrip(SubSeq(chars, 1, Len(chars) - 1)) ELSE chars

\* str.strip()
strip(chars) == rstrip(lstrip(chars))

\* parse_columns with the elements left as split gives them
parse_columns_unstripped(column_names) ==
    IF truthy(column_names)
    THEN List([i \in 1..Len(split(column_names.chars)) |->
                  Str(split(column_names.chars)[i])])
    ELSE None

\* lines 392-395 (and 412-415, 435-442): the column list of a column_names
\* string
parse_columns(column_names) ==
    IF truthy(column_names)
    THEN List([i \in 1..Len(split(column_names.chars)) |->
                  Str(strip(split(column_names.chars)[i]))])
    ELSE None

\* CellxGeneMCP.get_obs_metadata
get_obs_metadata(c, p) ==
    /\ CanStart(c)
    /\ \E limit \in Limits(p), column_names \in ColumnStrings(p) :
          Begin(c, "get_obs_metadata",
                [organism |-> "Homo sapiens", value_filter |-> "None",
                 column_names_arg |-> column_names,
                 column_names |-> parse_columns(column_names),
                 limit |-> limit], "open")

\* CellxGeneMCP.get_var_metadata
get_var_metadata(c, p) ==
    /\ CanStart(c)
    /\ \E limit \in Limits(p), column_names \in ColumnStrings(p) :
          Begin(c, "get_var_metadata",
                [organism |-> "Homo sapiens", value_filter |-> "None",
                 column_names_arg |-> column_names,
                 column_names |-> parse_columns(column_names),
                 limit |-> limit], "open")

RECURSIVE str_less(_, _)
\* Python's  a < b  on strings: lexicographic on the character codes, a
\* proper prefix being smaller
str_less(a, b) ==
    IF b = <<>> THEN FALSE
    ELSE IF a = <<>> THEN TRUE
    ELSE IF a[1] # b[1] THEN a[1] < b[1]
    ELSE str_less(Tail(a), Tail(b))

RECURSIVE unique(_)
\* Series.unique(): the distinct values, each at its first appearance
unique(col) ==
    IF col = <<>> THEN <<>>
    ELSE LET init == unique(SubSeq(col, 1, Len(col) - 1))
             x    == col[Len(col)]
         IN  IF \E i \in 1..Len(init) : init[i] = x THEN init ELSE Append(init, x)

\* one insertion of list.sort(): x goes after the elements not greater
insort(sorted, x) ==
    LET k == Cardinality({i \in 1..Len(sorted) : ~ str_less(x, sorted[i])})
    IN  SubSeq(sorted, 1, k) \o <<x>> \o SubSeq(sorted, k + 1, Len(sorted))

\* list.sort() left out
list_unsorted(l) == l

RECURSIVE list_sort(_)
\* list.sort() on strings
list_sort(l) ==
    IF l = <<>> THEN <<>>
    ELSE insort(list_sort(SubSeq(l, 1, Len(l) - 1)), l[Len(l)])

\* Series.value_counts().to_dict(): each value with its number of rows
value_counts(col) ==
    [v \in {col[i] : i \in 1..Len(col)} |->
        Cardinality({i \in 1..Len(col) : col[i] = v})]

\* value_counts().head(10).to_dict(): the TopN most frequent values
top_counts(col) ==
    LET counts == value_counts(col)
        vals   == DOMAIN counts
        top    == IF Cardinality(vals) <= TopN THEN vals
                  ELSE CHOOSE S \in SUBSET vals :
                         /\ Cardinality(S) = TopN
                         /\ \A v \in S, w \in vals \ S : counts[v] >= counts[w]
    IN  [v \in top |-> counts[v]]

\* lines 477-492: the result of get_all_cell_types
cell_types_result(obs_df, a) ==
    LET unique_cell_types == list_sort(unique(obs_df))
        base == [kind |-> "cell_types",
                 organism |-> a.organism,
                 cell_types |-> unique_cell_types,
                 total_unique_cell_types |-> Len(unique_cell_types),
                 primary_data_only |-> a.primary_data_only]
    IN  IF a.include_counts
        THEN [kind |-> "cell_types",
              organism |-> a.organism,
              cell_types |-> unique_cell_types,
              total_unique_cell_types |-> Len(unique_cell_types),
              primary_data_only |-> a.primary_data_only,
              cell_type_counts |-> value_counts(obs_df),
              top_10_cell_types |-> top_counts(obs_df)]
        ELSE base

\* CellxGeneMCP.get_all_cell_types
get_all_cell_types(c, p) ==
    /\ CanStart(c)
    /\ \E include_counts \in Flags(p), primary_data_only \in Flags(p) :
          Begin(c, "get_all_cell_types",
                [organism |-> "Homo sapiens", include_counts |-> include_counts,
                 primary_data_only |-> primary_data_only], "open")

\* get_all_cell_types, entering `async with self.census_manager.get_census()`
CellTypesOpen(c) ==
    /\ op[c] = "get_all_cell_types" /\ pc[c] = "open"
    /\ get_census_enter(c, "get")
    /\ UNCHANGED <<op, args, df, adata, info, result, retrievals, asked, shared>>

\* get_all_cell_types, the body of the `async with`
CellTypesGet(c, p) ==
    /\ op[c] = "get_all_cell_types" /\ pc[c] = "get"
    /\ retrievals' = [retrievals EXCEPT ![c] = @ + 1]
    /\ asked' = [asked EXCEPT ![c] = List(<<"cell_type">>)]
    /\ handles' = ReadThrough(handles, census[c], call[c])
    /\ \/ \E col \in CellTypeTables(p) :
             /\ df' = [df EXCEPT ![c] = col]
             /\ result' = [result EXCEPT ![c] = cell_types_result(col, args[c])]
             /\ pc' = [pc EXCEPT ![c] = "close"]
             /\ UNCHANGED <<adata, error>>
       \/ retrieval_failed(c)
    /\ UNCHANGED <<op, args, census, info, opens, manager_census,
                   shared>>

\* lines 307-318: the release builds of the directory and the latest stable
\* one (0 stands for None)
release_builds(versions) == [i \in 1..Len(versions) |-> i]

latest_stable(versions) ==
    IF versions = <<>> THEN 0
    ELSE LET stable_versions == {i \in 1..Len(versions) : versions[i]}
         IN  IF stable_versions # {}
             THEN CHOOSE i \in stable_versions : \A j \in stable_versions : j <= i
             ELSE Len(versions)

\* lines 344-349: the entry of an organism whose reads succeeded
organism_entry(obs_count, var_count) ==
    [total_cells |-> obs_count,
     total_genes |-> var_count,
     obs_columns |-> IF obs_count > 0 THEN ArchiveObsColumns ELSE <<>>,
     var_columns |-> IF var_count > 0 THEN ArchiveVarColumns ELSE <<>>]

\* line 352: the entry of an organism one of whose reads raised
organism_error_entry == [error |-> "organism read failed"]

\* line 359: dict(zip(summary_df["label"], summary_df["value"]))
summary_dict(table) ==
    [l \in {table[i].label : i \in 1..Len(table)} |->
        (CHOOSE r \in {table[i] : i \in 1..Len(table)} : r.label = l).value]

\* what the try block of lines 356-361 leaves in summary_info: the table as
\* a dict, or {} when the table is absent or reading it raised
SummaryDicts(p) ==
    IF p = "full" THEN {<<>>, summary_dict(SummaryTable)}
                  ELSE {summary_dict(SummaryTable)}

\* lines 363-371: the result of get_census_info
census_info_result(f) ==
    [kind |-> "census_info",
     available_versions |-> release_builds(f.versions),
     latest_stable_version |-> f.latest_version,
     supported_organisms |-> f.organisms,
     organism_statistics |-> f.organism_stats,
     total_cells_across_organisms |-> f.total_cells,
     census_summary |-> f.summary_info,
     version_info |-> f.versions]

\* CellxGeneMCP.get_census_info
get_census_info(c) ==
    /\ CanStart(c)
    /\ Begin(c, "get_census_info", None, "versions")

\* get_census_info, lines 307-318: the version directory is fetched before
\* the archive is opened
InfoVersions(c, p) ==
    /\ op[c] = "get_census_info" /\ pc[c] = "versions"
    /\ \/ \E versions \in VersionDirs(p) :
             /\ info' = [info EXCEPT ![c] =
                    [kind |-> "locals",
                     versions |-> versions,
                     latest_version |-> latest_stable(versions),
                     organisms |-> <<>>,
                     organism_stats |-> <<>>,
                     total_cells |-> 0,
                     exp |-> <<>>,
                     summary_info |-> <<>>]]
             /\ pc' = [pc EXCEPT ![c] = "open"]
             /\ error' = error
       \/ /\ pc' = [pc EXCEPT ![c] = "raised"]
          /\ error' = [error EXCEPT ![c] = "DirectoryError"]
          /\ info' = info
    /\ UNCHANGED <<op, args, census, df, adata, result, opens, retrievals,
                   handles, manager_census,
                   asked, shared>>

\* get_census_info, entering `async with self.census_manager.get_census()`
InfoOpen(c) ==
    /\ op[c] = "get_census_info" /\ pc[c] = "open"
    /\ get_census_enter(c, "organisms")
    /\ UNCHANGED <<op, args, df, adata, info, result, retrievals, asked, shared>>

\* a failure inside the `async with` that no inner handler catches
info_failed(c) ==
    /\ pc' = [pc EXCEPT ![c] = "close"]
    /\ error' = [error EXCEPT ![c] = "QueryError"]
    /\ UNCHANGED <<info, result>>

\* get_census_info, line 323: the organisms of the archive
InfoOrganisms(c, p) ==
    /\ op[c] = "get_census_info" /\ pc[c] = "organisms"
    /\ retrievals' = [retrievals EXCEPT ![c] = @ + 1]
    /\ handles' = ReadThrough(handles, census[c], call[c])
    /\ \/ \E organisms \in OrganismLists(p) :
             /\ info' = [info EXCEPT ![c].organisms = organisms]
             /\ pc' = [pc EXCEPT ![c] = "loop"]
             /\ UNCHANGED <<error, result>>
       \/ info_failed(c)
    /\ UNCHANGED <<op, args, census, df, adata, opens, manager_census,
                   asked, shared>>

\* the organisms the loop has dealt with so far
done_organisms(f) == DOMAIN f.exp

\* -1 as the count the archive gave for an axis marks a read that raised
ReadFailed == [cells |-> 0 - 1, genes |-> 0 - 1]

\* the loop without the inner handler's entry: a failed organism is skipped
loop_iteration_skipping(f, organism, read) ==
    IF read = ReadFailed
    THEN [f EXCEPT !.exp = @ @@ (organism :> read)]
    ELSE [f EXCEPT !.exp = @ @@ (organism :> read),
                   !.total_cells = @ + read.cells,
                   !.organism_stats =
                       @ @@ (organism :> organism_entry(read.cells, read.genes))]

\* lines 329-352, one iteration: the reads of one organism either all
\* succeed, and its counts and columns are recorded, or one raises, and
\* the organism gets an error entry.  `exp` keeps what the archive gave.
loop_iteration(f, organism, read) ==
    IF read = ReadFailed
    THEN [f EXCEPT !.exp = @ @@ (organism :> read),
                   !.organism_stats = @ @@ (organism :> organism_error_entry)]
    ELSE [f EXCEPT !.exp = @ @@ (organism :> read),
                   !.total_cells = @ + read.cells,
                   !.organism_stats =
                       @ @@ (organism :> organism_entry(read.cells, read.genes))]

\* get_census_info, the loop over the organisms
InfoOrganism(c, p) ==
    /\ op[c] = "get_census_info" /\ pc[c] = "loop"
    /\ Cardinality(done_organisms(info[c])) < Len(info[c].organisms)
    /\ LET organism ==
               info[c].organisms[Cardinality(done_organisms(info[c])) + 1]
       IN  \E read \in {ReadFailed} \cup [cells : Counts(p), genes : Counts(p)] :
              info' = [info EXCEPT ![c] = loop_iteration(@, organism, read)]
    /\ retrievals' = [retrievals EXCEPT ![c] = @ + 1]
    /\ handles' = ReadThrough(handles, census[c], call[c])
    /\ UNCHANGED <<op, pc, args, census, df, adata, result, error, opens, manager_census,
                   asked, shared>>

\* get_census_info, lines 354-371: the summary table is read if it is
\* there, a failure to read it is swallowed, and the result is built
InfoSummary(c, p) ==
    /\ op[c] = "get_census_info" /\ pc[c] = "loop"
    /\ Cardinality(done_organisms(info[c])) = Len(info[c].organisms)
    /\ \E summary_info \in SummaryDicts(p) :
          /\ info' = [info EXCEPT ![c].summary_info = summary_info]
          /\ result' = [result EXCEPT ![c] =
                 census_info_result([info[c] EXCEPT !.summary_info = summary_info])]
    /\ retrievals' = [retrievals EXCEPT ![c] = @ + 1]
    /\ handles' = ReadThrough(handles, census[c], call[c])
    /\ pc' = [pc EXCEPT ![c] = "close"]
    /\ UNCHANGED <<op, args, census, df, adata, error, opens, manager_census,
                   asked, shared>>

\* CellxGeneMCP.get_data_slice
get_data_slice(c, p) ==
    /\ CanStart(c)
    /\ \E max_cells \in Caps(p), max_genes \in Caps(p),
          names \in ColumnStringPairs(p) :
          Begin(c, "get_data_slice",
                [organism |-> "Homo sapiens", obs_value_filter |-> "None",
                 var_value_filter |-> "None",
                 obs_column_names_arg |-> names[1],
                 var_column_names_arg |-> names[2],
                 obs_column_names |-> parse_columns(names[1]),
                 var_column_names |-> parse_columns(names[2]),
                 max_cells |-> max_cells, max_genes |-> max_genes], "open")

(* --------------------------- specifications ---------------------------- *)

Init ==
    /\ call = [c \in Calls |-> 0]
    /\ op = [c \in Calls |-> "none"]
    /\ pc = [c \in Calls |-> "idle"]
    /\ args = [c \in Calls |-> None]
    /\ census = [c \in Calls |-> 0]
    /\ df = [c \in Calls |-> <<>>]
    /\ adata = [c \in Calls |-> None]
    /\ info = [c \in Calls |-> None]
    /\ result = [c \in Calls |-> None]
    /\ error = [c \in Calls |-> "none"]
    /\ opens = [c \in Calls |-> 0]
    /\ retrievals = [c \in Calls |-> 0]
    /\ asked = [c \in Calls |-> None]
    /\ handles = <<>>
    /\ CensusManagerInit
    /\ started = 0

Step(c, p) ==
    \/ get_obs_metadata(c, p)
    \/ ObsOpen(c)
    \/ ObsGet(c, p)
    \/ get_var_metadata(c, p)
    \/ VarOpen(c)
    \/ VarGet(c, p)
    \/ get_data_slice(c, p)
    \/ SliceOpen(c)
    \/ SliceGet(c, p)
    \/ get_all_cell_types(c, p)
    \/ CellTypesOpen(c)
    \/ CellTypesGet(c, p)
    \/ get_census_info(c)
    \/ InfoVersions(c, p)
    \/ InfoOpen(c)
    \/ InfoOrganisms(c, p)
    \/ InfoOrganism(c, p)
    \/ InfoSummary(c, p)
    \/ get_census_exit(c)

Next == Step(1, "full")

Spec == Init /\ [][Next]_vars

NextConc == \E c \in Calls : Step(c, "conc")

SpecConc == Init /\ [][NextConc]_vars

\* one caller issuing a single call, with the full range of column_names
\* strings
NextCols == pc[1] \notin {"returned", "raised"} /\ Step(1, "cols")

SpecCols == Init /\ [][NextCols]_vars

(* ------------------------------ claims --------------------------------- *)

\* the calls that have returned a value to their caller
Returned(o) == {c \in Calls : op[c] = o /\ pc[c] = "returned"}
MetadataReturned == Returned("get_obs_metadata") \cup Returned("get_var_metadata")

\* C1: a metadata query reports limited = TRUE exactly when the archive
\* returned more rows than the limit (the row count before truncation).
C1_LimitedIffExceeded ==
    \A c \in MetadataReturned :
        result[c].query_info.limited = (Len(df[c]) > args[c].limit)

\* C2 as stated: for every limit, zero and negative ones included, the
\* envelope has count = len(rows) and count <= limit.
C2_CountWithinAnyLimit ==
    \A c \in MetadataReturned :
        /\ result[c].count = Len(result[c].rows)
        /\ result[c].count <= args[c].limit

\* C2 amended: count = len(rows) for every limit, and count <= limit for
\* every limit that is not negative.
C2_CountWithinLimit ==
    \A c \in MetadataReturned :
        /\ result[c].count = Len(result[c].rows)
        /\ args[c].limit >= 0 => result[c].count <= args[c].limit

\* a metadata query whose table was over the limit has returned
C2_Witness ==
    \E c \in MetadataReturned :
        /\ args[c].limit >= 0
        /\ Len(df[c]) > args[c].limit
        /\ result[c].count = args[c].limit

\* C3 as stated: for every pair of caps, n_obs <= max_cells and
\* n_vars <= max_genes, each axis being capped on its own.
C3_DimsWithinAnyCap ==
    \A c \in Returned("get_data_slice") :
        /\ result[c].n_obs <= args[c].max_cells
        /\ result[c].n_vars <= args[c].max_genes

\* C3 amended: n_obs <= max_cells when max_cells is not negative, n_vars <=
\* max_genes when max_genes is not negative; and in every case each reported
\* dimension is the prefix cut of its own axis alone, so an axis within its
\* cap keeps its size whatever happens to the other.
C3_DimsWithinCap ==
    \A c \in Returned("get_data_slice") :
        /\ args[c].max_cells >= 0 => result[c].n_obs <= args[c].max_cells
        /\ args[c].max_genes >= 0 => result[c].n_vars <= args[c].max_genes
        /\ result[c].n_obs = Len(head(adata[c].obs, args[c].max_cells))
        /\ result[c].n_vars = Len(head(adata[c].var, args[c].max_genes))
        /\ n_obs(adata[c]) <= args[c].max_cells => result[c].n_obs = n_obs(adata[c])
        /\ n_vars(adata[c]) <= args[c].max_genes => result[c].n_vars = n_vars(adata[c])

\* a slice whose rows were capped and whose columns were not has returned
C3_Witness ==
    \E c \in Returned("get_data_slice") :
        /\ args[c].max_cells >= 0
        /\ n_obs(adata[c]) > args[c].max_cells
        /\ n_vars(adata[c]) > args[c].max_cells
        /\ n_vars(adata[c]) <= args[c].max_genes
        /\ result[c].n_vars = n_vars(adata[c])

\* the calls that have ended, and those still running
Ended == {c \in Calls : pc[c] \in {"idle", "returned", "raised"}}
InFlight == Calls \ Ended

\* the handles a call number opened
OpenedBy(k) == {id \in 1..Len(handles) : handles[id].opener = k}

\* C4: every handle a call opened is closed exactly once by the time the
\* call returns or raises, whichever way it ends; no handle is closed twice,
\* and none stays open after the call that opened it.
C4_HandleClosedOnce ==
    /\ \A id \in 1..Len(handles) :
          /\ handles[id].closes <= 1
          /\ handles[id].open <=> handles[id].closes = 0
    /\ \A c \in Ended : \A id \in OpenedBy(call[c]) :
          ~ handles[id].open /\ handles[id].closes = 1
    /\ \A id \in 1..Len(handles) :
          (\A c \in InFlight : call[c] # handles[id].opener) => ~ handles[id].open

\* a call whose retrieval failed has raised, its handle closed once
C4_Witness ==
    \E c \in Calls :
        /\ pc[c] = "raised" /\ error[c] = "QueryError"
        /\ census[c] # 0
        /\ handles[census[c]].opener = call[c]
        /\ handles[census[c]].closes = 1

\* the four bounded queries
BoundedQueries == {"get_obs_metadata", "get_var_metadata", "get_data_slice",
                   "get_all_cell_types"}

\* C5: in the four bounded queries a failed open or a failed retrieval ends
\* the call with an error and without any result; the archive is opened
\* once per call at most, and nothing is retrieved after a failed open.
C5_FailureIsFatal ==
    \A c \in Calls : op[c] \in BoundedQueries =>
        /\ opens[c] <= 1
        /\ retrievals[c] <= 1
        /\ census[c] = 0 => retrievals[c] = 0
        /\ error[c] # "none" => pc[c] \in {"close", "raised"} /\ result[c] = None
        /\ pc[c] = "raised" => error[c] # "none" /\ result[c] = None
        /\ pc[c] = "returned" =>
              error[c] = "none" /\ opens[c] = 1 /\ retrievals[c] = 1

\* a bounded query whose open failed has raised
C5_Witness ==
    \E c \in Calls :
        /\ op[c] \in BoundedQueries
        /\ pc[c] = "raised" /\ census[c] = 0
        /\ opens[c] = 1 /\ retrievals[c] = 0

\* the organisms one of whose reads raised
FailedOrganisms(f) == {o \in DOMAIN f.exp : f.exp[o] = ReadFailed}

\* the entry of organism o is the one its own reads give
OwnEntry(f, stats, o) ==
    IF o \in FailedOrganisms(f)
    THEN DOMAIN stats[o] = {"error"}
    ELSE /\ DOMAIN stats[o] =
               {"total_cells", "total_genes", "obs_columns", "var_columns"}
         /\ stats[o].total_cells = f.exp[o].cells
         /\ stats[o].total_genes = f.exp[o].genes
         /\ stats[o].obs_columns =
               (IF f.exp[o].cells > 0 THEN ArchiveObsColumns ELSE <<>>)
         /\ stats[o].var_columns =
               (IF f.exp[o].genes > 0 THEN ArchiveVarColumns ELSE <<>>)

\* C6: in get_census_info a failure while reading an organism does not end
\* the call: no call raises once the loop has begun, every organism dealt
\* with has its entry, and the returned organism_statistics has an entry for
\* every organism of the archive, an error field alone for a failed one and
\* its own counts and columns for every other, wherever the failed one stood.
C6_OrganismFailureIsolated ==
    \A c \in Calls : op[c] = "get_census_info" /\ info[c] # None =>
        /\ DOMAIN info[c].exp # {} => error[c] = "none"
        /\ DOMAIN info[c].organism_stats = DOMAIN info[c].exp
        /\ \A o \in DOMAIN info[c].exp :
              OwnEntry(info[c], info[c].organism_stats, o)
        /\ pc[c] = "returned" =>
              /\ DOMAIN result[c].organism_statistics =
                    {info[c].organisms[i] : i \in 1..Len(info[c].organisms)}
              /\ result[c].supported_organisms = info[c].organisms
              /\ \A o \in DOMAIN result[c].organism_statistics :
                    OwnEntry(info[c], result[c].organism_statistics, o)

\* get_census_info has returned after the first of two organisms failed and
\* the second did not
C6_Witness ==
    \E c \in Returned("get_census_info") :
        /\ Len(info[c].organisms) = 2
        /\ info[c].organisms[1] \in FailedOrganisms(info[c])
        /\ info[c].organisms[2] \notin FailedOrganisms(info[c])

\* C7: the cell_types list of get_all_cell_types is strictly ascending in
\* lexicographic order (sorted, no value twice), holds exactly the values
\* of the queried rows, and total_unique_cell_types is its length.
C7_CellTypesSortedDistinct ==
    \A c \in Returned("get_all_cell_types") :
        LET l == result[c].cell_types
        IN  /\ \A i \in 1..(Len(l) - 1) : str_less(l[i], l[i + 1])
            /\ {l[i] : i \in 1..Len(l)} = {df[c][i] : i \in 1..Len(df[c])}
            /\ result[c].total_unique_cell_types = Len(l)

\* a cell_type column with a repeated value and values out of order has
\* been listed
C7_Witness ==
    \E c \in Returned("get_all_cell_types") :
        /\ Len(df[c]) = 3
        /\ df[c][1] = df[c][3]
        /\ str_less(df[c][2], df[c][1])
        /\ Len(result[c].cell_types) = 2

\* C8: a result returned by get_census_info has the keys available_versions,
\* latest_stable_version, supported_organisms, data_types and
\* measurement_types.
C8_InfoHasExpectedKeys ==
    \A c \in Returned("get_census_info") :
        {"available_versions", "latest_stable_version", "supported_organisms",
         "data_types", "measurement_types"} \subseteq DOMAIN result[c]

\* C9: get_data_slice with max_cells = 0, whatever matrix the archive
\* returned (an empty one included), raises nothing of its own and returns
\* n_obs = 0 and an empty obs_sample.
C9_ZeroCellsCap ==
    \A c \in Calls :
        (/\ op[c] = "get_data_slice"
         /\ args[c].max_cells = 0
         /\ adata[c] # None) =>
            /\ error[c] = "none"
            /\ pc[c] \in {"close", "returned"}
            /\ result[c].n_obs = 0
            /\ result[c].obs_sample = <<>>

\* a slice of a matrix with cells has returned under max_cells = 0
C9_Witness ==
    \E c \in Returned("get_data_slice") :
        /\ args[c].max_cells = 0
        /\ n_obs(adata[c]) > 0
        /\ result[c].n_obs = 0

\* the open handles a call number opened
HeldBy(k) == {id \in OpenedBy(k) : handles[id].open}

\* C10: however the calls interleave, a call in flight holds at most one
\* handle and opened it itself; a handle is read through and closed by the
\* call that opened it and by no other; no two calls ever have the same
\* handle; and CensusManager._census is never set.
C10_HandlePerCall ==
    /\ manager_census = 0
    /\ \A c \in InFlight :
          /\ Cardinality(HeldBy(call[c])) <= 1
          /\ census[c] # 0 => handles[census[c]].opener = call[c]
          /\ HeldBy(call[c]) \subseteq {census[c]}
    /\ \A id \in 1..Len(handles) :
          /\ handles[id].readers \subseteq {handles[id].opener}
          /\ handles[id].closers \subseteq {handles[id].opener}
          /\ (\A c \in InFlight : call[c] # handles[id].opener) => ~ handles[id].open
    /\ \A c, d \in Calls :
          (c # d /\ census[c] # 0 /\ census[d] # 0) => census[c] # census[d]

\* two calls are in flight at once, each reading through its own open handle
C10_Witness ==
    \E c, d \in InFlight :
        /\ c # d
        /\ census[c] # 0 /\ census[d] # 0
        /\ handles[census[c]].open /\ handles[census[d]].open
        /\ handles[census[c]].readers # {} /\ handles[census[d]].readers # {}

\* the number of commas of a string, and the place of its n-th comma (0
\* before the first, one past the end after the last)
CommaCount(chars) == Cardinality({i \in 1..Len(chars) : chars[i] = ","})

NthComma(chars, n) ==
    IF n = 0 THEN 0
    ELSE IF n > CommaCount(chars) THEN Len(chars) + 1
    ELSE CHOOSE k \in 1..Len(chars) :
            chars[k] = "," /\ Cardinality({j \in 1..k : chars[j] = ","}) = n

\* the n-th comma-separated part of a string
Part(chars, n) ==
    SubSeq(chars, NthComma(chars, n - 1) + 1, NthComma(chars, n) - 1)

\* t is part without its leading and trailing whitespace
Trimmed(t, part) ==
    /\ t # <<>> => t[1] \notin Whitespace /\ t[Len(t)] \notin Whitespace
    /\ \E a \in 0..(Len(part) - Len(t)) :
          /\ SubSeq(part, a + 1, a + Len(t)) = t
          /\ \A i \in (1..a) \cup ((a + Len(t) + 1)..Len(part)) :
                part[i] \in Whitespace

\* sel is the list of the trimmed parts of the string, one per part, in order
ListOfParts(sel, chars) ==
    /\ sel.kind = "list"
    /\ Len(sel.items) = CommaCount(chars) + 1
    /\ \A i \in 1..Len(sel.items) :
          /\ sel.items[i].kind = "str"
          /\ Trimmed(sel.items[i].chars, Part(chars, i))

\* the selector of one axis in what get_anndata was asked
AxisSelector(a, axis) == IF a = None THEN None ELSE a[axis]

\* the (column_names string, selector passed to the archive) pairs of the
\* calls that have asked the archive
AskedSelectors ==
    {<<args[c].column_names_arg, asked[c]>> :
        c \in {d \in Calls : /\ op[d] \in {"get_obs_metadata", "get_var_metadata"}
                             /\ retrievals[d] > 0}}
    \cup {<<args[c].obs_column_names_arg, AxisSelector(asked[c], "obs")>> :
        c \in {d \in Calls : op[d] = "get_data_slice" /\ retrievals[d] > 0}}
    \cup {<<args[c].var_column_names_arg, AxisSelector(asked[c], "var")>> :
        c \in {d \in Calls : op[d] = "get_data_slice" /\ retrievals[d] > 0}}

\* C11 as stated: with no column_names string the archive is asked for all
\* columns (selector None); with any string it is asked for the list of the
\* string's comma-separated parts, each trimmed, in order, duplicates kept,
\* one element per part.
C11_SelectorFromAnyString ==
    \A q \in AskedSelectors :
        IF q[1] = None THEN q[2] = None ELSE ListOfParts(q[2], q[1].chars)

\* C11 amended: with no column_names string, or with the empty string, the
\* archive is asked for all columns (selector None); with any other string
\* it is asked for the list of the string's comma-separated parts, each
\* trimmed, in order, duplicates kept, one element per part.
C11_SelectorFromString ==
    \A q \in AskedSelectors :
        IF q[1] = None \/ q[1].chars = <<>>
        THEN q[2] = None
        ELSE ListOfParts(q[2], q[1].chars)

\* the archive was asked for the same column twice, from a string with
\* blanks around a name
C11_Witness ==
    \E q \in AskedSelectors :
        /\ q[1] # None
        /\ \E i \in 1..Len(q[1].chars) : q[1].chars[i] \in Whitespace
        /\ q[2].kind = "list"
        /\ Len(q[2].items) = 2
        /\ q[2].items[1] = q[2].items[2]
        /\ q[2].items[1].chars # <<>>

\* C12: with a positive limit, a metadata query whose table has more rows
\* than the limit returns the first limit rows of the table, in the table's
\* order; one whose table has at most limit rows returns the table as it is.
C12_PrefixTruncation ==
    \A c \in MetadataReturned :
        args[c].limit > 0 =>
            IF Len(df[c]) > args[c].limit
            THEN /\ Len(result[c].rows) = args[c].limit
                 /\ \A i \in 1..args[c].limit : result[c].rows[i] = df[c][i]
            ELSE result[c].rows = df[c]

\* a table at least two rows over a limit of two or more has been cut
C12_Witness ==
    \E c \in MetadataReturned :
        /\ args[c].limit >= 2
        /\ Len(df[c]) >= args[c].limit + 2
        /\ result[c].rows[args[c].limit] = df[c][args[c].limit]

\* an axis of the slice lost rows
CellsTruncated(c) == result[c].n_obs < n_obs(adata[c])
GenesTruncated(c) == result[c].n_vars < n_vars(adata[c])

\* the flags are the comparison of the final dimensions with the caps
FlagsAfterTruncation(c) ==
    /\ result[c].query_info.cells_limited = (result[c].n_obs = args[c].max_cells)
    /\ result[c].query_info.genes_limited = (result[c].n_vars = args[c].max_genes)

\* an axis exactly at its cap, nothing cut, has its flag set
FlagSetAtCap(c) ==
    /\ n_obs(adata[c]) = args[c].max_cells => result[c].query_info.cells_limited
    /\ n_vars(adata[c]) = args[c].max_genes => result[c].query_info.genes_limited

\* C13 as stated: cells_limited = (final n_obs = max_cells) and genes_limited
\* = (final n_vars = max_genes); the flag is set for an axis exactly at its
\* cap, and for every axis that was truncated.
C13_FlagSetWheneverTruncated ==
    \A c \in Returned("get_data_slice") :
        /\ FlagsAfterTruncation(c)
        /\ FlagSetAtCap(c)
        /\ CellsTruncated(c) => result[c].query_info.cells_limited
        /\ GenesTruncated(c) => result[c].query_info.genes_limited

\* C13 amended: cells_limited = (final n_obs = max_cells) and genes_limited =
\* (final n_vars = max_genes); the flag is set for an axis exactly at its
\* cap, and for every axis that was truncated under a cap that is not
\* negative.
C13_FlagsPostTruncation ==
    \A c \in Returned("get_data_slice") :
        /\ FlagsAfterTruncation(c)
        /\ FlagSetAtCap(c)
        /\ (args[c].max_cells >= 0 /\ CellsTruncated(c)) =>
              result[c].query_info.cells_limited
        /\ (args[c].max_genes >= 0 /\ GenesTruncated(c)) =>
              result[c].query_info.genes_limited

\* a slice with its cells exactly at the cap and its genes cut has returned,
\* both flags set
C13_Witness ==
    \E c \in Returned("get_data_slice") :
        /\ args[c].max_cells > 0
        /\ n_obs(adata[c]) = args[c].max_cells
        /\ GenesTruncated(c)
        /\ result[c].query_info.cells_limited
        /\ result[c].query_info.genes_limited

\* the calls whose open of the archive failed
OpenFailed == {c \in Calls : pc[c] = "raised" /\ opens[c] > 0 /\ census[c] = 0}

\* C14: when opening the archive fails, the cleanup of get_census closes
\* nothing and raises nothing of its own: the caller gets the open failure.
C14_OpenFailureReachesCaller ==
    \A c \in OpenFailed :
        /\ error[c] = "OpenError"
        /\ \A id \in 1..Len(handles) : call[c] \notin handles[id].closers

====
